---- MODULE Spec2Model ----
(***************************************************************************)
(* Model of the vscode-chromium-test extension: the ChromiumTestManager    *)
(* command construction and the command handlers registered by activate,   *)
(* in the three revisions of the extension that validate the file          *)
(* extension (part_002, part_001 and src/extension.ts).                    *)
(*                                                                         *)
(* A path is a sequence of atoms: the separator "/", the dot "." or a      *)
(* non-empty run of characters holding neither.  The path module's         *)
(* functions are modelled for POSIX on these atoms; Str renders a          *)
(* sequence of atoms as the string it stands for, so commands and          *)
(* messages are plain strings.                                             *)
(***************************************************************************)
EXTENDS Integers, Sequences, FiniteSets, TLC

SEP == "/"
DOT == "."

\* An optional value: undefined, or one defined value.
Undefined == <<>>
Defined(v) == <<v>>
ValueOf(o) == o[1]

----------------------------------------------------------------------------
(* Strings and node's path module (POSIX).                                 *)

RECURSIVE Str(_)
Str(s) == IF s = <<>> THEN "" ELSE Head(s) \o Str(Tail(s))

RECURSIVE Split(_)
\* s.split("/"): the segments between separators, empty ones included.
Split(s) ==
  IF \A i \in 1..Len(s) : s[i] # SEP THEN <<s>>
  ELSE LET k == CHOOSE i \in 1..Len(s) : s[i] = SEP /\ \A j \in 1..(i-1) : s[j] # SEP
       IN  <<SubSeq(s, 1, k-1)>> \o Split(SubSeq(s, k+1, Len(s)))

RECURSIVE JoinSep(_)
\* segments.join("/")
JoinSep(segs) ==
  IF segs = <<>> THEN <<>>
  ELSE IF Len(segs) = 1 THEN segs[1]
  ELSE segs[1] \o <<SEP>> \o JoinSep(Tail(segs))

DotDot == <<DOT, DOT>>

RECURSIVE normalizeString(_, _, _)
\* Resolves "." and ".." segments; acc is the result so far.
normalizeString(segs, allowAboveRoot, acc) ==
  IF segs = <<>> THEN acc
  ELSE LET s == Head(segs) rest == Tail(segs) IN
    IF s = <<>> \/ s = <<DOT>> THEN normalizeString(rest, allowAboveRoot, acc)
    ELSE IF s = DotDot THEN
      IF acc # <<>> /\ acc[Len(acc)] # DotDot
        THEN normalizeString(rest, allowAboveRoot, SubSeq(acc, 1, Len(acc)-1))
      ELSE IF allowAboveRoot
        THEN normalizeString(rest, allowAboveRoot, Append(acc, DotDot))
      ELSE normalizeString(rest, allowAboveRoot, acc)
    ELSE normalizeString(rest, allowAboveRoot, Append(acc, s))

isAbsolute(p) == p # <<>> /\ p[1] = SEP

\* path.normalize
normalize(p) ==
  IF p = <<>> THEN <<DOT>>
  ELSE LET abs      == isAbsolute(p)
           trailing == p[Len(p)] = SEP
           body     == JoinSep(normalizeString(Split(p), ~abs, <<>>))
       IN  IF body = <<>>
             THEN (IF abs THEN <<SEP>> ELSE IF trailing THEN <<DOT, SEP>> ELSE <<DOT>>)
             ELSE (IF abs THEN <<SEP>> ELSE <<>>) \o body
                  \o (IF trailing THEN <<SEP>> ELSE <<>>)

\* path.join(...parts): the non-empty parts joined by "/" and normalized.
pathJoin(parts) ==
  LET nonEmpty == SelectSeq(parts, LAMBDA q : q # <<>>)
  IN  IF nonEmpty = <<>> THEN <<DOT>> ELSE normalize(JoinSep(nonEmpty))

\* process.cwd()
Cwd == <<SEP, "home">>

\* path.resolve(p): an absolute, normalized path without trailing separator.
pathResolve(p) ==
  LET full == IF isAbsolute(p) THEN p
              ELSE IF p = <<>> THEN Cwd ELSE Cwd \o <<SEP>> \o p
  IN  <<SEP>> \o JoinSep(normalizeString(Split(full), FALSE, <<>>))

\* The directories of an absolute normalized path, below the root.
Segments(p) == normalizeString(Split(p), FALSE, <<>>)

RECURSIVE CommonLen(_, _)
CommonLen(a, b) ==
  IF a = <<>> \/ b = <<>> \/ Head(a) # Head(b) THEN 0
  ELSE 1 + CommonLen(Tail(a), Tail(b))

\* path.relative(from, to)
pathRelative(from, to) ==
  IF from = to THEN <<>>
  ELSE LET f == Segments(pathResolve(from))
           t == Segments(pathResolve(to))
           n == CommonLen(f, t)
           up   == [i \in 1..(Len(f) - n) |-> DotDot]
           down == SubSeq(t, n + 1, Len(t))
       IN  JoinSep(up \o down)

\* The last path component, trailing separators ignored.
Basename(p) ==
  LET segs == SelectSeq(Split(p), LAMBDA q : q # <<>>)
  IN  IF segs = <<>> THEN <<>> ELSE segs[Len(segs)]

\* path.extname: from the last dot of the last component to its end; empty
\* when there is no dot, when the last dot starts the component, or for "..".
pathExtname(p) ==
  LET base == Basename(p)
      dots == {i \in 1..Len(base) : base[i] = DOT}
  IN  IF dots = {} THEN <<>>
      ELSE LET k == CHOOSE i \in dots : \A j \in dots : j <= i
           IN  IF k = 1 \/ base = DotDot THEN <<>>
               ELSE SubSeq(base, k, Len(base))

----------------------------------------------------------------------------
(* Exceptions: a call either returns a value or throws one.                *)

Return(v) == [threw |-> FALSE, value |-> v]
Throw(e)  == [threw |-> TRUE,  value |-> e]

----------------------------------------------------------------------------
(* ChromiumTestManager.                                                    *)

Versions == {"part_002", "part_001", "extension"}

DefaultCompileTarget == "Default"

\* new ChromiumTestManager(rootDir, compileTarget)
ChromiumTestManager(rootDir, compileTarget) ==
  [rootDir |-> rootDir, compileTarget |-> compileTarget]

getCompileCommand(mgr, target_binary) ==
  "autoninja -C out/" \o mgr.compileTarget \o " " \o target_binary

\* The extensions the guard of getWebTestCommand compares extname with.
AcceptedExtensions(v) ==
  IF v = "part_002" THEN {<<"html">>, <<"php">>}
  ELSE {<<DOT, "html">>, <<DOT, "php">>}

\* The directory of the web tests, as getWebTestCommand builds it.
WebTestPath(v, rootDir) ==
  IF v = "part_002"
    THEN JoinSep(<<rootDir, <<"third_party">>, <<"blink">>, <<"web_tests">> >>)
    ELSE pathJoin(<<rootDir, <<"third_party">>, <<"blink">>, <<"web_tests">> >>)

TestScriptPath(v) ==
  IF v = "part_002"
    THEN JoinSep(<< <<"third_party">>, <<"blink">>, <<"tools">>,
                    <<"run_web_tests", DOT, "py">> >>)
    ELSE pathJoin(<< <<"third_party">>, <<"blink">>, <<"tools">>,
                    <<"run_web_tests", DOT, "py">> >>)

\* The arguments of path.relative exchanged.
getWebTestCommandSwapped(v, mgr, file_path) ==
  IF pathExtname(file_path) \notin AcceptedExtensions(v)
    THEN Throw("Wrong extension(" \o Str(pathExtname(file_path))
               \o ") for web test. Expect .html or .php.")
    ELSE LET web_test_path == WebTestPath(v, mgr.rootDir)
             test_path     == pathRelative(file_path, web_test_path)
         IN  Return(Str(TestScriptPath(v)) \o " -t " \o mgr.compileTarget
                    \o " " \o Str(test_path))

getWebTestCommand(v, mgr, file_path) ==
  IF pathExtname(file_path) \notin AcceptedExtensions(v)
    THEN Throw("Wrong extension(" \o Str(pathExtname(file_path))
               \o ") for web test. Expect .html or .php.")
    ELSE LET web_test_path == WebTestPath(v, mgr.rootDir)
             test_path     == pathRelative(web_test_path, file_path)
         IN  Return(Str(TestScriptPath(v)) \o " -t " \o mgr.compileTarget
                    \o " " \o Str(test_path))

getCurrentFilePath(editor) ==
  IF editor = Undefined THEN Throw("No active editor")
  ELSE Return(ValueOf(editor))

\* The test runner before the build.
getTestCommandReversed(v, mgr, editor) ==
  LET compile == getCompileCommand(mgr, "content_shell")
      file    == getCurrentFilePath(editor)
  IN  IF file.threw THEN file
      ELSE LET web == getWebTestCommand(v, mgr, file.value)
           IN  IF web.threw THEN web
               ELSE Return(web.value \o " && " \o compile)

\* getCompileCommand("content_shell") + " && " + getWebTestCommand(getCurrentFilePath())
getTestCommand(v, mgr, editor) ==
  LET compile == getCompileCommand(mgr, "content_shell")
      file    == getCurrentFilePath(editor)
  IN  IF file.threw THEN file
      ELSE LET web == getWebTestCommand(v, mgr, file.value)
           IN  IF web.threw THEN web
               ELSE Return(compile \o " && " \o web.value)

----------------------------------------------------------------------------
(* Inputs.                                                                 *)

MaxTerminals == 2

\* Workspace folders: W1 and W2 may hold a chromium checkout.
W1 == <<SEP, "w1">>
W2 == <<SEP, "w2">>
LicenseFile(root) == root \o <<SEP, "src", SEP, "LICENSE", DOT, "chromium_os">>

WebTests(root) ==
  root \o <<SEP, "src", SEP, "third_party", SEP, "blink", SEP, "web_tests">>

\* The files an editor shows.
EditorFiles ==
  { WebTests(W1) \o <<SEP, "a", DOT, "html">>,
    WebTests(W1) \o <<SEP, "fast", SEP, "b", DOT, "php">>,
    WebTests(W1) \o <<SEP, "c", DOT, "txt">>,
    W1 \o <<SEP, "src", SEP, "content", SEP, "x", DOT, "html">> }

\* Values of the settings chromium.rootDir and chromium.targetConfig.
ConfiguredDirs    == {Undefined, Defined(W1 \o <<SEP, "src">>),
                      Defined(<<"chromium", SEP, "src", SEP>>)}
ConfiguredTargets == {Undefined, Defined("Release")}

----------------------------------------------------------------------------
(* State.                                                                  *)

VARIABLES
  version,          \* the revision of the extension that is running
  configuration,    \* the workspace configuration 'chromium'
  rootPath,         \* vscode.workspace.rootPath
  files,            \* the files that exist (fs.existsSync)
  activeTextEditor, \* the file name of vscode.window.activeTextEditor
  terminals,        \* vscode.window.terminals
  self,             \* ChromiumTestManager.self (extension)
  testManager,      \* const testManager of activate (part_001, part_002)
  pc,               \* position of the extension host in a handler
  command,          \* the handler that is running
  messages,         \* information messages shown by this handler
  clipboard,        \* texts written to the clipboard by this handler
  statusBar,        \* status bar messages set by this handler
  sent,             \* [terminal, text] sent to terminals by this handler
  shown,            \* terminals shown by this handler
  unhandled,        \* errors that left this handler uncaught
  result,           \* what the handler's body returned or threw
  assigned,         \* self was assigned by this handler
  created,          \* terminals getTerminal created since a terminal closed
  targets,          \* terminals that got a command since a terminal closed
  remembered,       \* the inputs and result of one earlier invocation
  call              \* a direct call of getWebTestCommand and its outcome

env     == <<version, configuration, rootPath, files, activeTextEditor>>
effects == <<messages, clipboard, statusBar, sent, shown, unhandled>>
vars    == <<version, configuration, rootPath, files, activeTextEditor, terminals,
             self, testManager, pc, command, messages, clipboard, statusBar,
             sent, shown, unhandled, result, assigned, created, targets,
             remembered, call>>

NoResult == Undefined
NoCall   == Undefined

DefaultConfiguration == [chromiumDir |-> Undefined, targetConfig |-> Undefined]

\* Each revision starts from the inputs it reads: src/extension.ts reads the
\* workspace folder and the file system, the earlier revisions the settings.
Init ==
  /\ version \in Versions
  /\ IF version = "extension"
       THEN /\ configuration = DefaultConfiguration
            /\ rootPath \in {Undefined, Defined(W1), Defined(W2)}
            /\ files \in SUBSET {LicenseFile(W1), LicenseFile(W2)}
       ELSE /\ configuration \in [chromiumDir : ConfiguredDirs,
                                  targetConfig : ConfiguredTargets]
            /\ rootPath = Undefined
            /\ files = {}
  /\ activeTextEditor = Undefined
  /\ terminals = <<>>
  /\ self = Undefined
  /\ testManager = Undefined
  /\ pc = "inactive"
  /\ command = "none"
  /\ messages = <<>>
  /\ clipboard = <<>>
  /\ statusBar = <<>>
  /\ sent = <<>>
  /\ shown = <<>>
  /\ unhandled = <<>>
  /\ result = NoResult
  /\ assigned = FALSE
  /\ created = {}
  /\ targets = {}
  /\ remembered = Undefined
  /\ call = NoCall

----------------------------------------------------------------------------
(* Editor API glue.                                                        *)

log(msgs, message) == Append(msgs, message)

\* pasteToClipboard: the status bar message it sets.
CopiedMessage(input) == "\"" \o input \o "\" was copied to the clipboard."

\* The terminal createTerminal adds to vscode.window.terminals.
NewTerminal(terms) ==
  CHOOSE t \in 1..(Len(terms) + 1) :
    /\ \A i \in 1..Len(terms) : terms[i] # t
    /\ \A u \in 1..(t - 1) : \E i \in 1..Len(terms) : terms[i] = u

\* A terminal created on every call.
getTerminalAlwaysNew(terms) ==
  [terminal |-> NewTerminal(terms), terminals |-> Append(terms, NewTerminal(terms)),
   sent |-> <<[terminal |-> NewTerminal(terms), text |-> "cd src\n"]>>,
   isNew |-> TRUE]

\* getTerminal: [terminal, window.terminals afterwards, text sent to it].
getTerminal(terms) ==
  IF Len(terms) = 0
    THEN [terminal |-> NewTerminal(terms), terminals |-> <<NewTerminal(terms)>>,
          sent |-> <<[terminal |-> NewTerminal(terms), text |-> "cd src\n"]>>,
          isNew |-> TRUE]
    ELSE [terminal |-> terms[1], terminals |-> terms, sent |-> <<>>,
          isNew |-> FALSE]

\* runCommand: the effects of getTerminal, show and sendText.
runCommand(terms, cmd) ==
  LET g == getTerminal(terms)
  IN  [terminal  |-> g.terminal,
       terminals |-> g.terminals,
       isNew     |-> g.isNew,
       shown     |-> <<g.terminal>>,
       sent      |-> Append(g.sent, [terminal |-> g.terminal, text |-> cmd \o "\n"])]

\* The prefix of the message the catch block logs.
ErrorPrefix(v) ==
  IF v = "extension" THEN "vscode-chromium-test error: " ELSE "vscode-chromium-test: "

\* The error consumed silently.
wrapExceptionSilent(v, r) == [logged |-> <<>>, rethrown |-> <<>>]

\* wrapException / wrap_exception / the try-catch of part_002: what the catch
\* block logs for the outcome r of the wrapped function, and what it rethrows.
wrapException(v, r) ==
  IF r.threw THEN [logged |-> <<ErrorPrefix(v) \o r.value>>, rethrown |-> <<>>]
  ELSE [logged |-> <<>>, rethrown |-> <<>>]

\* The checkout is not verified.
initChromiumTestManagerUnverified(root, existing) ==
  IF root = Undefined
    THEN Throw("No opened folder. Please open a folder that contains chromium checkout.")
  ELSE Return(ChromiumTestManager(pathJoin(<<ValueOf(root), <<"src">> >>),
                                  DefaultCompileTarget))

\* A manager that exists is kept.
initChromiumTestManagerOnce(root, existing) ==
  IF self # Undefined THEN Return(ValueOf(self))
  ELSE IF root = Undefined
    THEN Throw("No opened folder. Please open a folder that contains chromium checkout.")
  ELSE IF pathJoin(<<ValueOf(root), <<"src">>, <<"LICENSE", DOT, "chromium_os">> >>)
            \notin existing
    THEN Throw("Current project is not a chromium checkout.")
  ELSE Return(ChromiumTestManager(pathJoin(<<ValueOf(root), <<"src">> >>),
                                  DefaultCompileTarget))

\* initChromiumTestManager: throws, or returns the manager it assigns to self.
initChromiumTestManager(root, existing) ==
  IF root = Undefined
    THEN Throw("No opened folder. Please open a folder that contains chromium checkout.")
  ELSE IF pathJoin(<<ValueOf(root), <<"src">>, <<"LICENSE", DOT, "chromium_os">> >>)
            \notin existing
    THEN Throw("Current project is not a chromium checkout.")
  ELSE Return(ChromiumTestManager(pathJoin(<<ValueOf(root), <<"src">> >>),
                                  DefaultCompileTarget))

\* The commands activate registers.
RegisteredCommands(v) ==
  IF v = "part_002" THEN {"copy"} ELSE {"copy", "run"}

\* The command registered without initChromiumTestManager.
EntryPointBody(v) == "body"

\* exportCommand runs initChromiumTestManager before the command; the earlier
\* revisions register the command itself.
EntryPoint(v) == IF v = "extension" THEN "init" ELSE "body"

\* The manager a command body uses.
Manager == IF version = "extension" THEN self ELSE testManager

\* ChromiumTestManager.self.getTestCommand() / getTestCommand()
BodyResult ==
  IF Manager = Undefined
    THEN Throw("TypeError: Cannot read property 'getTestCommand' of undefined")
    ELSE getTestCommand(version, ValueOf(Manager), activeTextEditor)

----------------------------------------------------------------------------
(* Handlers.                                                               *)

\* activate(context)
Activate ==
  /\ pc = "inactive"
  /\ pc' = "done"
  /\ command' = "activate"
  /\ IF version = "extension"
       THEN UNCHANGED <<testManager, messages>>
       ELSE LET dirMissing    == configuration.chromiumDir = Undefined
                targetMissing == configuration.targetConfig = Undefined
                chromiumDir   == pathResolve(IF dirMissing THEN <<"chromium", SEP, "src">>
                                             ELSE ValueOf(configuration.chromiumDir))
                target        == IF targetMissing THEN "Default"
                                 ELSE ValueOf(configuration.targetConfig)
                m1 == IF dirMissing
                        THEN log(messages, "chromium.rootDir not configed in config.json")
                        ELSE messages
                m2 == IF targetMissing
                        THEN log(m1, "chromium.targetConfig not configed in config.json")
                        ELSE m1
            IN  /\ testManager' = Defined(ChromiumTestManager(chromiumDir, target))
                /\ messages' = m2
  /\ UNCHANGED <<env, terminals, self, clipboard, statusBar, sent, shown, unhandled,
                 result, assigned, created, targets, remembered, call>>

\* The editor invokes a registered command.
Invoke(cmd) ==
  /\ pc = "idle"
  /\ cmd \in RegisteredCommands(version)
  /\ pc' = EntryPoint(version)
  /\ command' = cmd
  /\ UNCHANGED <<env, terminals, self, testManager, effects, result, assigned,
                 created, targets, remembered, call>>

\* exportCommand: initChromiumTestManager(), under wrapException.
InitStep ==
  /\ pc = "init"
  /\ LET r == initChromiumTestManager(rootPath, files)
         w == wrapException(version, r)
     IN  IF r.threw
           THEN /\ messages' = messages \o w.logged
                /\ unhandled' = unhandled \o w.rethrown
                /\ result' = Defined(r)
                /\ pc' = "done"
                /\ UNCHANGED <<self, assigned>>
           ELSE /\ self' = Defined(r.value)
                /\ assigned' = TRUE
                /\ pc' = "body"
                /\ UNCHANGED <<messages, unhandled, result>>
  /\ UNCHANGED <<env, terminals, testManager, command, clipboard, statusBar, sent,
                 shown, created, targets, remembered, call>>

\* chromium.copyWebTestCommand: pasteToClipboard(getTestCommand()).
CopyWebTestCommand ==
  /\ pc = "body"
  /\ command = "copy"
  /\ LET r == BodyResult
         w == wrapException(version, r)
     IN  /\ result' = Defined(r)
         /\ unhandled' = unhandled \o w.rethrown
         /\ IF r.threw
              THEN /\ messages' = messages \o w.logged
                   /\ UNCHANGED <<clipboard, statusBar>>
              ELSE /\ clipboard' = Append(clipboard, r.value)
                   /\ statusBar' = Append(statusBar, CopiedMessage(r.value))
                   /\ messages' = IF version = "part_002"
                                    THEN Append(messages, r.value)
                                    ELSE messages
  /\ pc' = "done"
  /\ UNCHANGED <<env, terminals, self, testManager, command, sent, shown, assigned,
                 created, targets, remembered, call>>

\* chromium.runWebTest: runCommand(getTestCommand()).
RunWebTest ==
  /\ pc = "body"
  /\ command = "run"
  /\ LET r == BodyResult
         w == wrapException(version, r)
     IN  /\ result' = Defined(r)
         /\ unhandled' = unhandled \o w.rethrown
         /\ IF r.threw
              THEN /\ messages' = messages \o w.logged
                   /\ UNCHANGED <<terminals, sent, shown, created, targets>>
              ELSE LET run == runCommand(terminals, r.value)
                   IN  /\ terminals' = run.terminals
                       /\ sent' = sent \o run.sent
                       /\ shown' = shown \o run.shown
                       /\ created' = IF run.isNew THEN created \cup {run.terminal}
                                     ELSE created
                       /\ targets' = targets \cup {run.terminal}
                       /\ UNCHANGED messages
  /\ pc' = "done"
  /\ UNCHANGED <<env, self, testManager, command, clipboard, statusBar, assigned,
                 remembered, call>>

\* The inputs an invocation read and what it produced.
Invocation ==
  [rootPath |-> rootPath,
   checkout |-> rootPath # Undefined /\ LicenseFile(ValueOf(rootPath)) \in files,
   editor   |-> activeTextEditor,
   result   |-> result]

\* The handler has returned; the next one starts with nothing shown or written.
Finish ==
  /\ pc = "done"
  /\ pc' = "idle"
  /\ command' = "none"
  /\ messages' = <<>>
  /\ clipboard' = <<>>
  /\ statusBar' = <<>>
  /\ sent' = <<>>
  /\ shown' = <<>>
  /\ unhandled' = <<>>
  /\ result' = NoResult
  /\ assigned' = FALSE
  /\ \/ UNCHANGED remembered
     \/ /\ version = "extension"
        /\ command \in {"copy", "run"}
        /\ remembered' = Defined(Invocation)
        /\ remembered' # remembered
  /\ UNCHANGED <<env, terminals, self, testManager, created, targets, call>>

----------------------------------------------------------------------------
(* The user, between two handlers.                                         *)

OpenFolder(root) ==
  /\ pc = "idle"
  /\ version = "extension"
  /\ rootPath' = root
  /\ rootPath' # rootPath
  /\ UNCHANGED <<version, configuration, files, activeTextEditor, terminals, self,
                 testManager, pc, command, effects, result, assigned, created,
                 targets, remembered, call>>

\* LICENSE.chromium_os of a folder is created or deleted.
ChangeFile(file) ==
  /\ pc = "idle"
  /\ version = "extension"
  /\ files' = IF file \in files THEN files \ {file} ELSE files \cup {file}
  /\ UNCHANGED <<version, configuration, rootPath, activeTextEditor, terminals, self,
                 testManager, pc, command, effects, result, assigned, created,
                 targets, remembered, call>>

ShowEditor(editor) ==
  /\ pc = "idle"
  /\ activeTextEditor' = editor
  /\ activeTextEditor' # activeTextEditor
  /\ UNCHANGED <<version, configuration, rootPath, files, terminals, self,
                 testManager, pc, command, effects, result, assigned, created,
                 targets, remembered, call>>

OpenTerminal ==
  /\ pc = "idle"
  /\ Len(terminals) < MaxTerminals
  /\ terminals' = Append(terminals, NewTerminal(terminals))
  /\ UNCHANGED <<env, self, testManager, pc, command, effects, result, assigned,
                 created, targets, remembered, call>>

CloseTerminal(i) ==
  /\ pc = "idle"
  /\ i \in 1..Len(terminals)
  /\ terminals' = SubSeq(terminals, 1, i - 1) \o SubSeq(terminals, i + 1, Len(terminals))
  /\ created' = {}
  /\ targets' = {}
  /\ UNCHANGED <<env, self, testManager, pc, command, effects, result, assigned,
                 remembered, call>>

Next ==
  \/ Activate
  \/ \E cmd \in {"copy", "run"} : Invoke(cmd)
  \/ InitStep
  \/ CopyWebTestCommand
  \/ RunWebTest
  \/ Finish
  \/ \E root \in {Undefined, Defined(W1), Defined(W2)} : OpenFolder(root)
  \/ \E file \in {LicenseFile(W1), LicenseFile(W2)} : ChangeFile(file)
  \/ \E editor \in {Undefined} \cup {Defined(f) : f \in EditorFiles} : ShowEditor(editor)
  \/ OpenTerminal
  \/ \E i \in 1..MaxTerminals : CloseTerminal(i)

Spec == Init /\ [][Next]_vars

----------------------------------------------------------------------------
(* Direct calls of ChromiumTestManager.getWebTestCommand.                  *)

CallRootDirs ==
  { W1 \o <<SEP, "src">>,
    W1 \o <<SEP, "src", SEP>>,
    <<"chromium", SEP, "src">> }

CallTargets == {"Default", "Release"}

CallFiles ==
  { WebTests(W1) \o <<SEP, "a", DOT, "html">>,
    WebTests(W1) \o <<SEP, "fast", SEP, "dom", SEP, "b", DOT, "php">>,
    WebTests(W1) \o <<SEP, "fast", SEP, "c", DOT, "tar", DOT, "html">>,
    WebTests(W1) \o <<SEP, "d", DOT, "txt">>,
    WebTests(W1) \o <<SEP, "README">>,
    WebTests(W1) \o <<SEP, DOT, "html">>,
    WebTests(W1) \o <<SEP, "e", DOT>>,
    WebTests(W1) \o <<SEP, "html">>,
    W1 \o <<SEP, "src", SEP, "content", SEP, "x", DOT, "html">>,
    WebTests(Cwd \o <<SEP, "chromium">>) \o <<SEP, "wpt", SEP, "f", DOT, "html">> }

CallGetWebTestCommand(rootDir, compileTarget, file_path) ==
  /\ call' = Defined([rootDir       |-> rootDir,
                      compileTarget |-> compileTarget,
                      file_path     |-> file_path,
                      outcome       |-> getWebTestCommand(
                                          version,
                                          ChromiumTestManager(rootDir, compileTarget),
                                          file_path)])
  /\ call' # call
  /\ UNCHANGED <<env, terminals, self, testManager, pc, command, effects, result,
                 assigned, created, targets, remembered>>

InitCalls ==
  /\ version \in Versions
  /\ configuration = DefaultConfiguration
  /\ rootPath = Undefined
  /\ files = {}
  /\ activeTextEditor = Undefined
  /\ terminals = <<>>
  /\ self = Undefined
  /\ testManager = Undefined
  /\ pc = "inactive"
  /\ command = "none"
  /\ messages = <<>>
  /\ clipboard = <<>>
  /\ statusBar = <<>>
  /\ sent = <<>>
  /\ shown = <<>>
  /\ unhandled = <<>>
  /\ result = NoResult
  /\ assigned = FALSE
  /\ created = {}
  /\ targets = {}
  /\ remembered = Undefined
  /\ call = NoCall

NextCalls ==
  \E rootDir \in CallRootDirs, compileTarget \in CallTargets, file_path \in CallFiles :
    CallGetWebTestCommand(rootDir, compileTarget, file_path)

SpecCalls == InitCalls /\ [][NextCalls]_vars

----------------------------------------------------------------------------
(* What the claims speak of.                                               *)

\* <rootDir>/third_party/blink/web_tests
WebTestsDir(rootDir) ==
  rootDir \o <<SEP, "third_party", SEP, "blink", SEP, "web_tests">>

\* file lies below dir.
IsUnder(dir, file) ==
  LET d == Segments(pathResolve(dir))
      f == Segments(pathResolve(file))
  IN  Len(f) > Len(d) /\ SubSeq(f, 1, Len(d)) = d

\* The components of file below dir.
PathBelow(dir, file) ==
  LET d == Segments(pathResolve(dir))
      f == Segments(pathResolve(file))
  IN  JoinSep(SubSeq(f, Len(d) + 1, Len(f)))

\* The file name is a non-empty stem followed by .html or .php.
HasWebTestExtension(file) ==
  LET base == Basename(file)
  IN  /\ Len(base) >= 3
      /\ SubSeq(base, Len(base) - 1, Len(base)) \in {<<DOT, "html">>, <<DOT, "php">>}

NoFolderError ==
  "No opened folder. Please open a folder that contains chromium checkout."
NotCheckoutError == "Current project is not a chromium checkout."

IsCommandHandler == pc = "done" /\ command \in {"copy", "run"}

----------------------------------------------------------------------------
(* Claims.                                                                 *)

\* C1: for a file with extension .html or .php below
\* <rootDir>/third_party/blink/web_tests, getWebTestCommand (src/extension.ts,
\* part_001) returns 'third_party/blink/tools/run_web_tests.py -t
\* <compileTarget> <p>', p being the file's path below the web_tests directory,
\* and joining that directory with p gives the file's path back.
C1_WebTestCommand ==
  call # NoCall =>
    LET c   == ValueOf(call)
        dir == WebTestsDir(c.rootDir)
        p   == PathBelow(dir, c.file_path)
    IN  ( /\ version \in {"extension", "part_001"}
          /\ HasWebTestExtension(c.file_path)
          /\ IsUnder(dir, c.file_path) )
        => /\ c.outcome = Return("third_party/blink/tools/run_web_tests.py -t "
                                 \o c.compileTarget \o " " \o Str(p))
           /\ pathJoin(<<pathResolve(dir), p>>) = c.file_path

C1_Witness ==
  /\ call # NoCall
  /\ version = "extension"
  /\ ValueOf(call).rootDir = <<"chromium", SEP, "src">>
  /\ ValueOf(call).outcome =
       Return("third_party/blink/tools/run_web_tests.py -t Release wpt/f.html")

\* C2: in every revision that documents '@throws string when test file has
\* invalid file extension', getWebTestCommand throws exactly when the file's
\* extension is neither .html nor .php.
C2_ThrowsExactlyOnWrongExtension ==
  call # NoCall =>
    (ValueOf(call).outcome.threw <=> ~HasWebTestExtension(ValueOf(call).file_path))

\* The error a command handler raised is reported as the one message
\* prefix + error, and the handler wrote and sent nothing.
ReportedWithPrefix(prefix) ==
  /\ messages = <<prefix \o ValueOf(result).value>>
  /\ unhandled = <<>>
  /\ clipboard = <<>>
  /\ statusBar = <<>>
  /\ sent = <<>>
  /\ shown = <<>>

HandlerFailed ==
  /\ IsCommandHandler
  /\ version \in {"extension", "part_001"}
  /\ result # NoResult
  /\ ValueOf(result).threw

\* C3, as stated: every error raised while a command wrapped by wrapException
\* (src/extension.ts) or wrap_exception (part_001) runs is reported as exactly
\* one log message prefixed 'vscode-chromium-test error: ', does not leave the
\* handler, and nothing is written to the clipboard or sent to a terminal.
C3_Original ==
  HandlerFailed => ReportedWithPrefix("vscode-chromium-test error: ")

\* C3, amended: as above, the prefix being 'vscode-chromium-test error: ' under
\* wrapException of src/extension.ts and 'vscode-chromium-test: ' under
\* wrap_exception of part_001.
C3_ErrorsReported ==
  HandlerFailed =>
    ReportedWithPrefix(IF version = "extension" THEN "vscode-chromium-test error: "
                       ELSE "vscode-chromium-test: ")

C3_Witness ==
  /\ HandlerFailed
  /\ version = "extension"
  /\ command = "run"
  /\ terminals # <<>>
  /\ messages = <<"vscode-chromium-test error: Wrong extension(.txt) for web test. Expect .html or .php.">>

\* C4: with an active editor on a .html or .php file, getTestCommand returns
\* 'autoninja -C out/<compileTarget> content_shell && <web test command of
\* the active file>', both parts with the manager's compileTarget.
C4_TestCommand ==
  ( /\ IsCommandHandler
    /\ version \in {"extension", "part_001"}
    /\ version = "extension" => assigned
    /\ activeTextEditor # Undefined
    /\ HasWebTestExtension(ValueOf(activeTextEditor)) )
  => LET mgr == ValueOf(Manager)
         web == getWebTestCommand(version, mgr, ValueOf(activeTextEditor))
     IN  /\ ~web.threw
         /\ result = Defined(Return("autoninja -C out/" \o mgr.compileTarget
                                    \o " content_shell && " \o web.value))

C4_Witness ==
  /\ IsCommandHandler
  /\ version = "part_001"
  /\ result = Defined(Return(
       "autoninja -C out/Release content_shell && "
       \o "third_party/blink/tools/run_web_tests.py -t Release fast/b.php"))

\* C5: in every invocation of a command wrapped by exportCommand the command
\* body is entered only from initChromiumTestManager having completed without
\* throwing, so whenever the body dereferences ChromiumTestManager.self, self
\* is defined and was assigned in that invocation.
C5_InitBeforeBody ==
  /\ [](version = "extension" /\ pc = "body" => self # Undefined /\ assigned)
  /\ [][version = "extension" /\ pc' = "body" /\ pc # "body"
          => /\ pc = "init"
             /\ rootPath # Undefined
             /\ LicenseFile(ValueOf(rootPath)) \in files
             /\ self' # Undefined]_vars

\* The body of a later invocation is about to run, in folder W2, after an
\* earlier invocation sent a command to a terminal.
C5_Witness ==
  /\ version = "extension"
  /\ pc = "body"
  /\ assigned
  /\ targets # {}
  /\ self = Defined(ChromiumTestManager(W2 \o <<SEP, "src">>, "Default"))

\* C6: initChromiumTestManager throws 'No opened folder...' without a root
\* path, throws 'Current project is not a chromium checkout.' when
\* <rootPath>/src/LICENSE.chromium_os does not exist, leaving self unchanged
\* in both cases; otherwise it sets self to the manager of <rootPath>/src
\* with compileTarget 'Default'.
C6_InitChromiumTestManager ==
  [][pc = "init" /\ pc' # "init" =>
       IF rootPath = Undefined
         THEN result' = Defined(Throw(NoFolderError)) /\ self' = self
       ELSE IF LicenseFile(ValueOf(rootPath)) \notin files
         THEN result' = Defined(Throw(NotCheckoutError)) /\ self' = self
       ELSE /\ self' = Defined([rootDir |-> ValueOf(rootPath) \o <<SEP, "src">>,
                                compileTarget |-> "Default"])
            /\ result' = NoResult]_vars

\* The checkout check failed while a manager of an earlier invocation exists.
C6_Witness ==
  /\ pc = "done"
  /\ result = Defined(Throw(NotCheckoutError))
  /\ self # Undefined

\* C7: runCommand creates a terminal only when the window has none, and
\* otherwise sends the command to the first existing terminal; so while no
\* terminal is closed the extension creates at most one terminal and all
\* commands go to the same terminal.
C7_TerminalReuse ==
  /\ [](Cardinality(created) <= 1 /\ Cardinality(targets) <= 1)
  /\ [][pc = "body" /\ command = "run" /\ pc' = "done" /\ ~ValueOf(result').threw
          => IF terminals = <<>>
               THEN /\ Len(terminals') = 1
                    /\ sent'[Len(sent')] =
                         [terminal |-> terminals'[1],
                          text |-> ValueOf(result').value \o "\n"]
               ELSE /\ terminals' = terminals
                    /\ sent' = <<[terminal |-> terminals[1],
                                  text |-> ValueOf(result').value \o "\n"]>>]_vars

\* A later runWebTest reuses the terminal an earlier one created.
C7_Witness ==
  /\ pc = "done"
  /\ command = "run"
  /\ created # {}
  /\ Len(sent) = 1
  /\ Len(terminals) = 2

\* This invocation read the inputs the remembered one read.
SameRootAndFile ==
  /\ version = "extension"
  /\ IsCommandHandler
  /\ remembered # Undefined
  /\ ValueOf(remembered).rootPath = rootPath
  /\ ValueOf(remembered).editor = activeTextEditor

\* C8, as stated: two invocations of copyWebTestCommand or runWebTest made
\* with the same workspace root path and the same active editor's file
\* produce the same command string or the same error, whatever happened
\* between them.
C8_Original ==
  SameRootAndFile => result = ValueOf(remembered).result

\* C8, amended: two invocations made with the same workspace root path, the
\* same answer to whether <rootPath>/src/LICENSE.chromium_os exists and the
\* same active editor's file produce the same command string or the same
\* error, whatever the earlier invocations were; a manager's fields do not
\* change after construction (self is only ever replaced, by
\* initChromiumTestManager, with a newly constructed manager).
C8_HistoryIndependent ==
  /\ [](SameRootAndFile /\ ValueOf(remembered).checkout = Invocation.checkout
          => result = ValueOf(remembered).result)
  /\ [][self' # self =>
          /\ pc = "init"
          /\ self' = Defined([rootDir |-> ValueOf(rootPath) \o <<SEP, "src">>,
                              compileTarget |-> "Default"])]_vars
  /\ [][testManager # Undefined => testManager' = testManager]_vars

\* A copy in folder W1 repeats the inputs of a remembered run, the manager
\* having been one of folder W2 in between.
C8_Witness ==
  /\ SameRootAndFile
  /\ ValueOf(remembered).checkout = Invocation.checkout
  /\ command = "copy"
  /\ rootPath = Defined(W1)
  /\ ~ValueOf(result).threw
  /\ targets # {}

====
